---------------------------- MODULE Spec2Model ----------------------------
(***************************************************************************)
(* Clip playback of the Scene Host (ModelDisplayer) and the Pointer Proxy  *)
(* (CursorObject), driven by the page's mouse-move, click and scroll       *)
(* handlers and by the requestAnimationFrame loop of home.js.              *)
(*                                                                         *)
(* Time is counted in quanta; a clock delta is a multiple of               *)
(* TimeScaleDen quanta so that delta * 0.75 is a whole number of quanta.   *)
(***************************************************************************)
EXTENDS Integers, Sequences, FiniteSets, TLC

VARIABLES pc, host, cursor, last, promise, console

vars == <<pc, host, cursor, last, promise, console>>

(* ------------------------------ bounds -------------------------------- *)

\* largest offset, per axis, of a sampled pointer position from a trigger
\* point
MaxOffset == 5

\* largest elapsed wall-clock time between two frames, in clock units
MaxDelta == 2

\* the lines console.log writes are followed up to this many: a further
\* one is not recorded
MaxLogLines == 1

\* duration of the shortest clip of an asset, in quanta
BaseDuration == 4

(* ----------------------------- constants ------------------------------ *)

\* TIME_SCALE_FACTOR = 0.75 = TimeScaleNum / TimeScaleDen
TimeScaleNum == 3

TimeScaleDen == 4

TRIGGER_REGION_RADIUS == 5

Null == "null"

\* the names of animationConstants.js
AnimationNameConstants ==
  [NONE |-> "NONE", TOUCH |-> "TOUCH", SHOES |-> "SHOES", HEAD |-> "HEAD",
   LA |-> "LA", SCROLL |-> "SCROLL", CLICK |-> "CLICK",
   INDEX_FINGER |-> "INDEX_FINGER"]

\* clip.duration of each clip, in quanta
Duration(clip) ==
  CASE clip \in {"TOUCH", "CLICK"}      -> BaseDuration
    [] clip \in {"HEAD", "SCROLL"}      -> BaseDuration + 1
    [] clip \in {"SHOES", "INDEX_FINGER"} -> BaseDuration + 2
    [] OTHER                            -> BaseDuration + 3

(* ------------------- THREE.AnimationAction / Mixer --------------------- *)

\* a new AnimationAction; active is membership of the mixer's list of
\* active actions (set by play())
AnimationAction ==
  [active |-> FALSE, time |-> 0, timeScale |-> 1, paused |-> FALSE,
   enabled |-> TRUE, clampWhenFinished |-> FALSE]

\* a new AnimationMixer: a map from clip names to the actions it created
AnimationMixer == [c \in {} |-> AnimationAction]

\* mixer.clipAction(clip): the existing action of the clip, or a new one
clipAction(mixer, clip) ==
  IF clip \in DOMAIN mixer THEN mixer[clip] ELSE AnimationAction

\* the mixer with the action of clip being a
withAction(mixer, clip, a) ==
  [c \in DOMAIN mixer \cup {clip} |-> IF c = clip THEN a ELSE mixer[c]]

\* action.play(): the mixer activates the action
play(a) == [a EXCEPT !.active = TRUE]

\* action.reset()
reset(a) == [a EXCEPT !.paused = FALSE, !.enabled = TRUE, !.time = 0]

\* the end of a LoopOnce action: clamp and pause, or disable
finish(a) ==
  IF a.clampWhenFinished THEN [a EXCEPT !.paused = TRUE]
  ELSE [a EXCEPT !.enabled = FALSE]

\* AnimationAction._updateTime for LoopOnce
updateTime(a, duration, deltaTime) ==
  LET time == a.time + deltaTime IN
  IF deltaTime = 0 THEN a
  ELSE IF time >= duration THEN finish([a EXCEPT !.time = duration])
  ELSE IF time < 0 THEN finish([a EXCEPT !.time = 0])
  ELSE [a EXCEPT !.time = time]

\* AnimationAction._updateTimeScale
updateTimeScale(a) == IF a.paused THEN 0 ELSE a.timeScale

\* AnimationAction._update, called by the mixer for each active action
update(a, duration, deltaTime) ==
  IF ~a.active \/ ~a.enabled THEN a
  ELSE updateTime(a, duration, deltaTime * updateTimeScale(a))

\* AnimationMixer.update(deltaTime)
mixerUpdate(mixer, deltaTime) ==
  [c \in DOMAIN mixer |-> update(mixer[c], Duration(c), deltaTime)]

\* Clock.getDelta(): 0 on the call that starts the clock, the elapsed time
\* afterwards
ClockDeltas(running) ==
  IF running THEN {TimeScaleDen * k : k \in 1..MaxDelta} ELSE {0}

\* delta = clock.getDelta() * TIME_SCALE_FACTOR
scaledDelta(d) == (d * TimeScaleNum) \div TimeScaleDen


(* --------------------- ModelDisplayer (Scene Host) --------------------- *)

\* the fields of a ModelDisplayer after its constructor: _model and _mixer
\* are {} until the asset is loaded (loaded = FALSE)
ModelDisplayer ==
  [loaded |-> FALSE, clockRunning |-> FALSE, currentAction |-> Null,
   mixer |-> AnimationMixer]

ModelDisplayer_isActionPlayable(m) ==
  IF m.currentAction = Null THEN TRUE
  ELSE m.mixer[m.currentAction].paused \/ m.mixer[m.currentAction].time = 0

\* a changed playAnimation: no isClipAtStartingPoint test
ModelDisplayer_playAnimation_noStartCheck(m, clipName) ==
  IF ModelDisplayer_isActionPlayable(m)
  THEN [m EXCEPT
         !.currentAction = clipName,
         !.mixer = withAction(m.mixer, clipName,
            play([clipAction(m.mixer, clipName) EXCEPT
                    !.clampWhenFinished = TRUE, !.paused = FALSE,
                    !.enabled = TRUE, !.timeScale = 1]))]
  ELSE m

ModelDisplayer_playAnimation(m, clipName) ==
  IF ModelDisplayer_isActionPlayable(m)
  THEN LET isClipAtStartingPoint ==
             IF m.currentAction = Null THEN TRUE
             ELSE m.mixer[m.currentAction].time = 0
       IN IF isClipAtStartingPoint
          THEN [m EXCEPT
                 !.currentAction = clipName,
                 !.mixer = withAction(m.mixer, clipName,
                    play([clipAction(m.mixer, clipName) EXCEPT
                            !.clampWhenFinished = TRUE, !.paused = FALSE,
                            !.enabled = TRUE, !.timeScale = 1]))]
          ELSE m
  ELSE m

\* a changed revertToOriginalPosition: no _isActionPlayable test
ModelDisplayer_revertToOriginalPosition_noGuard(m) ==
  IF m.currentAction # Null /\ m.mixer[m.currentAction].time # 0
  THEN [m EXCEPT
         !.mixer[m.currentAction] =
            play([@ EXCEPT !.timeScale = -1, !.clampWhenFinished = FALSE,
                           !.paused = FALSE])]
  ELSE m

\* a changed revertToOriginalPosition: the action is left paused
ModelDisplayer_revertToOriginalPosition_paused(m) ==
  IF ModelDisplayer_isActionPlayable(m)
       /\ m.currentAction # Null /\ m.mixer[m.currentAction].time # 0
  THEN [m EXCEPT
         !.mixer[m.currentAction] =
            play([@ EXCEPT !.timeScale = -1, !.clampWhenFinished = FALSE])]
  ELSE m

ModelDisplayer_revertToOriginalPosition(m) ==
  IF ModelDisplayer_isActionPlayable(m)
  THEN LET isClipAtEndPoint ==
             IF m.currentAction = Null THEN FALSE
             ELSE m.mixer[m.currentAction].time # 0
       IN IF isClipAtEndPoint
          THEN [m EXCEPT
                 !.mixer[m.currentAction] =
                    play([@ EXCEPT !.timeScale = -1,
                                   !.clampWhenFinished = FALSE,
                                   !.paused = FALSE])]
          ELSE m
  ELSE m

\* ModelDisplayer.animate with the clock delta d
ModelDisplayer_animate(m, d) ==
  [m EXCEPT !.clockRunning = TRUE,
            !.mixer = mixerUpdate(m.mixer, scaledDelta(d))]

(* ---------------------- CursorObject (Pointer Proxy) ------------------- *)

\* the trigger definitions in insertion order
trigger_centres ==
  << <<"TOUCH", <<70, 60, 65>> >>,
     <<"SHOES", <<85, 55, 55>> >>,
     <<"HEAD",  <<75, 65, 60>> >>,
     <<"LA",    <<65, 60, 75>> >> >>

CursorObject ==
  [loaded |-> FALSE, clockRunning |-> FALSE, currentAction |-> Null,
   currentClipDuration |-> 0, position |-> <<0, 0, 0>>,
   mixer |-> AnimationMixer]

\* a changed distanceTo: the distance on the screen plane, z left out
distanceToSquared_2d(p, q) ==
  (p[1] - q[1]) * (p[1] - q[1]) + (p[2] - q[2]) * (p[2] - q[2])

\* squared Vector3.distanceTo
distanceToSquared(p, q) ==
  (p[1] - q[1]) * (p[1] - q[1]) + (p[2] - q[2]) * (p[2] - q[2])
    + (p[3] - q[3]) * (p[3] - q[3])

\* a changed forEach: the first trigger found is kept
RECURSIVE forEachTrigger_firstMatch(_, _, _)
forEachTrigger_firstMatch(position, n, animation) ==
  IF n > Len(trigger_centres) THEN animation
  ELSE forEachTrigger_firstMatch(position, n + 1,
         IF /\ animation = AnimationNameConstants.NONE
            /\ distanceToSquared(position, trigger_centres[n][2])
                 <= TRIGGER_REGION_RADIUS * TRIGGER_REGION_RADIUS
         THEN trigger_centres[n][1] ELSE animation)

\* the forEach of getModelAnimation from the n-th trigger definition on
RECURSIVE forEachTrigger(_, _, _)
forEachTrigger(position, n, animation) ==
  IF n > Len(trigger_centres) THEN animation
  ELSE forEachTrigger(position, n + 1,
         IF distanceToSquared(position, trigger_centres[n][2])
              <= TRIGGER_REGION_RADIUS * TRIGGER_REGION_RADIUS
         THEN trigger_centres[n][1] ELSE animation)

\* a changed getModelAnimation: the iteration misses the first definition
getModelAnimation_skipFirst(position) ==
  forEachTrigger(position, 2, AnimationNameConstants.NONE)

getModelAnimation(position) ==
  forEachTrigger(position, 1, AnimationNameConstants.NONE)

\* setCursorPosition: the ray through the mouse position meets the plane
\* at intersectPoint (given in half units), and the model is placed at
\* intersectPoint.multiplyScalar(2) (in whole units)
setCursorPosition(c, intersectPoint) ==
  [c EXCEPT !.position = [i \in 1..3 |-> (intersectPoint[i] * 2) \div 2]]

\* a changed _isActionPlayable: shouldPlay is set whatever the time
CursorObject_isActionPlayable_always(c) == TRUE

\* a changed _isActionPlayable: the Scene Host's rule, time 0 is a boundary
CursorObject_isActionPlayable_atStart(c) ==
  IF c.currentAction = Null THEN TRUE
  ELSE \/ c.mixer[c.currentAction].time = c.currentClipDuration
       \/ c.mixer[c.currentAction].time = 0

\* a changed _isActionPlayable: a clip is over when its action is paused
CursorObject_isActionPlayable_paused(c) ==
  IF c.currentAction = Null THEN TRUE
  ELSE c.mixer[c.currentAction].paused

\* the value _isActionPlayable returns
CursorObject_isActionPlayable(c) ==
  IF c.currentAction = Null THEN TRUE
  ELSE c.mixer[c.currentAction].time = c.currentClipDuration

\* the object _isActionPlayable leaves: the finished action is reset
CursorObject_afterIsActionPlayable(c) ==
  IF c.currentAction # Null
       /\ c.mixer[c.currentAction].time = c.currentClipDuration
  THEN [c EXCEPT !.mixer[c.currentAction] = reset(@)]
  ELSE c

\* a changed playAnimation: _isActionPlayable() is called before the name is
\* tested, so a finished action is reset whatever the name
CursorObject_playAnimation_playableFirst(c, clipName) ==
  IF CursorObject_isActionPlayable(c)
  THEN LET c1 == CursorObject_afterIsActionPlayable(c)
           clip == IF clipName = AnimationNameConstants.TOUCH
                   THEN AnimationNameConstants.INDEX_FINGER ELSE clipName
       IN IF clipName \in {AnimationNameConstants.LA,
                           AnimationNameConstants.SCROLL,
                           AnimationNameConstants.CLICK,
                           AnimationNameConstants.TOUCH}
          THEN [c1 EXCEPT
                  !.currentClipDuration = Duration(clip),
                  !.currentAction = clip,
                  !.mixer = withAction(c1.mixer, clip,
                     play([clipAction(c1.mixer, clip) EXCEPT !.timeScale = 1]))]
          ELSE c1
  ELSE c

CursorObject_playAnimation(c, clipName) ==
  IF clipName \in {AnimationNameConstants.LA, AnimationNameConstants.SCROLL,
                   AnimationNameConstants.CLICK, AnimationNameConstants.TOUCH}
       /\ CursorObject_isActionPlayable(c)
  THEN LET c1 == CursorObject_afterIsActionPlayable(c)
           clip == IF clipName = AnimationNameConstants.TOUCH
                   THEN AnimationNameConstants.INDEX_FINGER ELSE clipName
       IN [c1 EXCEPT
             !.currentClipDuration = Duration(clip),
             !.currentAction = clip,
             !.mixer = withAction(c1.mixer, clip,
                play([clipAction(c1.mixer, clip) EXCEPT !.timeScale = 1]))]
  ELSE c

CursorObject_animate(c, d) ==
  [c EXCEPT !.clockRunning = TRUE,
            !.mixer = mixerUpdate(c.mixer, scaledDelta(d))]

(* ------------------------------ home.js -------------------------------- *)

\* points, in half units, at which the mouse ray meets the plane
\* x + y + z = 100 of setCursorPosition
IntersectPoints ==
  { <<72, 62, 66>>,    \* doubled: within the TOUCH sphere only
    <<73, 63, 64>>,    \* doubled: within the TOUCH and the HEAD sphere
    <<100, 50, 50>> }  \* doubled: outside every sphere

\* the last handler that ran and the animation it selected or requested
NoLast == [op |-> "none", animation |-> Null]

\* the errors GLTFLoader.load can hand to its error callback
LoadErrors == {"NetworkError", "ParseError"}

\* the centres the bounding box of the loaded hand asset can have
BoxCentres == {<<0, 0, 0>>, <<2, 0, -4>>}

\* a line console.error or console.log writes
ConsoleLine(level, line) == [level |-> level, line |-> line]

\* console.log(line) on a console that holds lines
consoleLog(lines, line) ==
  IF Len(lines) < MaxLogLines
  THEN Append(lines, ConsoleLine("log", line)) ELSE lines

\* a promise that is not created yet, pending, resolved or rejected
Promise(state, value) == [state |-> state, value |-> value]

\* the ready handler has called displayModelOnWebpage and awaits it
Init ==
  /\ pc = "loadModel"
  /\ host = ModelDisplayer
  /\ cursor = CursorObject
  /\ last = NoLast
  /\ promise = [model |-> Promise("pending", Null),
                cursor |-> Promise("none", Null)]
  /\ console = << >>

\* await modelDisplayer.displayModelOnWebpage(...) resolves
DisplayModelResolved ==
  /\ pc = "loadModel"
  /\ host' = [host EXCEPT !.loaded = TRUE]
  /\ pc' = "loadCursor"
  /\ last' = [NoLast EXCEPT !.op = "displayModel"]
  /\ promise' = [model |-> Promise("resolved", "gltf"),
                 cursor |-> Promise("pending", Null)]
  /\ UNCHANGED <<cursor, console>>

\* as DisplayModelRejectedWith, but neither error callback logs the error
DisplayModelRejectedWith_notLogged(error) ==
  /\ pc = "loadModel"
  /\ pc' = "failed"
  /\ last' = [NoLast EXCEPT !.op = "displayModelRejected"]
  /\ promise' = [promise EXCEPT !.model = Promise("rejected", error)]
  /\ UNCHANGED <<host, cursor, console>>

\* the character asset fails to load with error: _loadModelOntoScene logs
\* it and rejects, the catch of displayModelOnWebpage logs it again and
\* rejects, and the ready handler ends at its await
DisplayModelRejectedWith(error) ==
  /\ pc = "loadModel"
  /\ pc' = "failed"
  /\ last' = [NoLast EXCEPT !.op = "displayModelRejected"]
  /\ console' = console \o <<ConsoleLine("error", error),
                             ConsoleLine("error", error)>>
  /\ promise' = [promise EXCEPT !.model = Promise("rejected", error)]
  /\ UNCHANGED <<host, cursor>>

DisplayModelRejected == \E error \in LoadErrors : DisplayModelRejectedWith(error)

\* await cursorObject.loadCursorObjectToScene(...) resolves for an asset
\* whose bounding box has the given centre: the loader has moved the model
\* by its offset from that centre and created the mixer; the ready handler
\* binds the three handlers and calls animate(), whose first pass starts
\* both clocks
LoadCursorResolvedWith(centre) ==
  /\ pc = "loadCursor"
  /\ LET loadedCursor ==
           [cursor EXCEPT
              !.loaded = TRUE,
              !.position = [i \in 1..3 |-> @[i] + (@[i] - centre[i])]]
     IN \E dm \in ClockDeltas(host.clockRunning) :
          \E dc \in ClockDeltas(cursor.clockRunning) :
            /\ host' = ModelDisplayer_animate(host, dm)
            /\ cursor' = CursorObject_animate(loadedCursor, dc)
  /\ pc' = "running"
  /\ last' = [NoLast EXCEPT !.op = "loadCursor"]
  /\ promise' = [promise EXCEPT !.cursor = Promise("resolved", "gltf")]
  /\ UNCHANGED console

LoadCursorResolved ==
  \E centre \in BoxCentres : LoadCursorResolvedWith(centre)

\* as LoadCursorRejectedWith, but the ready handler goes on after the
\* rejected await: it binds the handlers and calls animate()
LoadCursorRejectedWith_swallowed(error) ==
  /\ pc = "loadCursor"
  /\ pc' = "running"
  /\ last' = [NoLast EXCEPT !.op = "loadCursorRejected"]
  /\ console' = Append(console, ConsoleLine("error", error))
  /\ promise' = [promise EXCEPT !.cursor = Promise("rejected", error)]
  /\ UNCHANGED <<host, cursor>>

\* the hand asset fails to load with error: the error callback logs it and
\* rejects, and the ready handler ends at its await
LoadCursorRejectedWith(error) ==
  /\ pc = "loadCursor"
  /\ pc' = "failed"
  /\ last' = [NoLast EXCEPT !.op = "loadCursorRejected"]
  /\ console' = Append(console, ConsoleLine("error", error))
  /\ promise' = [promise EXCEPT !.cursor = Promise("rejected", error)]
  /\ UNCHANGED <<host, cursor>>

LoadCursorRejected == \E error \in LoadErrors : LoadCursorRejectedWith(error)

\* a changed mousemove handler: revertToOriginalPosition is called after the
\* branch, whatever animation was selected
MouseMove_revertAfterPlay(intersectPoint) ==
  /\ pc = "running"
  /\ LET moved == setCursorPosition(cursor, intersectPoint)
         animationToBePlayed == getModelAnimation(moved.position)
     IN /\ IF animationToBePlayed = AnimationNameConstants.NONE
           THEN /\ host' = ModelDisplayer_revertToOriginalPosition(host)
                /\ cursor' = moved
           ELSE /\ host' = ModelDisplayer_revertToOriginalPosition(
                             ModelDisplayer_playAnimation(host, animationToBePlayed))
                /\ cursor' = CursorObject_playAnimation(moved, animationToBePlayed)
        /\ last' = [op |-> "mousemove", animation |-> animationToBePlayed]
  /\ UNCHANGED <<pc, promise, console>>

\* the mousemove handler
MouseMove(intersectPoint) ==
  /\ pc = "running"
  /\ LET moved == setCursorPosition(cursor, intersectPoint)
         animationToBePlayed == getModelAnimation(moved.position)
     IN /\ IF animationToBePlayed = AnimationNameConstants.NONE
           THEN /\ host' = ModelDisplayer_revertToOriginalPosition(host)
                /\ cursor' = moved
           ELSE /\ host' = ModelDisplayer_playAnimation(host, animationToBePlayed)
                /\ cursor' = CursorObject_playAnimation(moved, animationToBePlayed)
        /\ last' = [op |-> "mousemove", animation |-> animationToBePlayed]
  /\ UNCHANGED <<pc, promise, console>>

\* the click handler
Click ==
  /\ pc = "running"
  /\ cursor' = CursorObject_playAnimation(cursor, AnimationNameConstants.CLICK)
  /\ console' = consoleLog(console, cursor.position)
  /\ last' = [op |-> "click", animation |-> AnimationNameConstants.CLICK]
  /\ UNCHANGED <<pc, host, promise>>

\* the scroll handler
Scroll ==
  /\ pc = "running"
  /\ cursor' = CursorObject_playAnimation(cursor, AnimationNameConstants.SCROLL)
  /\ last' = [op |-> "scroll", animation |-> AnimationNameConstants.SCROLL]
  /\ UNCHANGED <<pc, host, promise, console>>

\* one frame of animate(): both objects advance by their own clock's delta
Animate(dm, dc) ==
  /\ pc = "running"
  /\ host' = ModelDisplayer_animate(host, dm)
  /\ cursor' = CursorObject_animate(cursor, dc)
  /\ last' = [op |-> "animate", animation |-> Null]
  /\ UNCHANGED <<pc, promise, console>>

Frame ==
  \E dm \in ClockDeltas(host.clockRunning) :
    \E dc \in ClockDeltas(cursor.clockRunning) : Animate(dm, dc)

Next ==
  \/ DisplayModelResolved
  \/ DisplayModelRejected
  \/ LoadCursorResolved
  \/ LoadCursorRejected
  \/ \E p \in IntersectPoints : MouseMove(p)
  \/ Click
  \/ Scroll
  \/ Frame

Spec == Init /\ [][Next]_vars

\* the display refresh cycle keeps calling animate()
FairSpec == Spec /\ WF_vars(Frame)


(* ------------------- getModelAnimation on its own ---------------------- *)

\* pointer positions around each trigger point, and the camera's position
SelectorPositions ==
  { [i \in 1..3 |-> trigger_centres[n][2][i] + d[i]] :
      n \in 1..Len(trigger_centres),
      d \in [1..3 -> (0 - MaxOffset)..MaxOffset] }
    \cup { <<100, 100, 100>> }

\* the loaded pointer proxy stands at any of the sampled positions
SelectorInit ==
  /\ pc = "selector"
  /\ host = ModelDisplayer
  /\ \E position \in SelectorPositions :
       cursor = [CursorObject EXCEPT !.loaded = TRUE, !.position = position]
  /\ last = NoLast
  /\ promise = [model |-> Promise("none", Null),
                cursor |-> Promise("resolved", "gltf")]
  /\ console = << >>

\* cursorObject.getModelAnimation() is called
Select ==
  /\ pc = "selector"
  /\ pc' = "selected"
  /\ last' = [op |-> "getModelAnimation",
              animation |-> getModelAnimation(cursor.position)]
  /\ UNCHANGED <<host, cursor, promise, console>>

SelectorNext == Select

SelectorSpec == SelectorInit /\ [][SelectorNext]_vars

(* ------------------------- vocabulary of the claims -------------------- *)

\* isRunning(): started, enabled, not paused and not yet finished
Running(a) == a.active /\ a.enabled /\ ~a.paused

RunningClips(mixer) == {c \in DOMAIN mixer : Running(mixer[c])}

HostCurrent == host.mixer[host.currentAction]

CursorCurrent == cursor.mixer[cursor.currentAction]

\* the clip state of each object
HostClipState(m) == <<m.currentAction, m.mixer>>

CursorClipState(c) == <<c.currentAction, c.mixer, c.currentClipDuration>>

\* the step is a handler that requests playAnimation on both objects
MouseMovePlays ==
  last'.op = "mousemove" /\ last'.animation # AnimationNameConstants.NONE

\* the step is a handler that requests revertToOriginalPosition
MouseMoveReverts ==
  last'.op = "mousemove" /\ last'.animation = AnimationNameConstants.NONE

\* the step requests playAnimation on the Pointer Proxy
CursorPlayRequested == MouseMovePlays \/ last'.op \in {"click", "scroll"}

\* the current action is mid-playback
HostMidPlayback ==
  /\ host.currentAction # Null
  /\ 0 < HostCurrent.time
  /\ HostCurrent.time < Duration(host.currentAction)
  /\ ~HostCurrent.paused

CursorMidPlayback ==
  /\ cursor.currentAction # Null
  /\ 0 < CursorCurrent.time
  /\ CursorCurrent.time < Duration(cursor.currentAction)
  /\ ~CursorCurrent.paused

(* -------------------------------- C1 ----------------------------------- *)

\* C1: in every reachable state at most one clip action of the Scene
\* Host's mixer is running.
C1_HostSingleActiveClip == Cardinality(RunningClips(host.mixer)) <= 1

(* -------------------------------- C2 ----------------------------------- *)

\* C2: in every reachable state at most one clip action of the Pointer
\* Proxy's mixer is running; the clip that completed is not running once
\* another clip has been started.
C2_CursorSingleActiveClip == Cardinality(RunningClips(cursor.mixer)) <= 1

(* -------------------------------- C3 ----------------------------------- *)

\* C3: on both objects a playAnimation request made while the current
\* action is mid-playback (forward or reverse, not paused) changes nothing
\* of the object's clip state.
C3_MidPlaybackPlayIsNoOp ==
  [][ /\ (MouseMovePlays /\ HostMidPlayback
            => HostClipState(host') = HostClipState(host))
      /\ (CursorPlayRequested /\ CursorMidPlayback
            => CursorClipState(cursor') = CursorClipState(cursor)) ]_vars

\* a mouse move has asked both objects for TOUCH while the Scene Host was
\* mid-way in reverse and the Pointer Proxy mid-way forward
C3_Witness ==
  /\ last.op = "mousemove"
  /\ last.animation = AnimationNameConstants.TOUCH
  /\ HostMidPlayback
  /\ HostCurrent.timeScale = -1
  /\ host.currentAction # AnimationNameConstants.TOUCH
  /\ CursorMidPlayback
  /\ cursor.currentAction # AnimationNameConstants.INDEX_FINGER

(* -------------------------------- C4 ----------------------------------- *)

\* C4: CLICK requested on the idle Pointer Proxy plays CLICK forward from
\* time 0, and a SCROLL request arriving before CLICK has completed, also
\* at time 0, leaves the proxy's clip state as it was.
C4_ClickThenScrollIgnored ==
  [][ /\ (last'.op = "click" /\ cursor.currentAction = Null
            => /\ cursor'.currentAction = AnimationNameConstants.CLICK
               /\ Running(cursor'.mixer[AnimationNameConstants.CLICK])
               /\ cursor'.mixer[AnimationNameConstants.CLICK].time = 0
               /\ cursor'.mixer[AnimationNameConstants.CLICK].timeScale = 1)
      /\ ((/\ last'.op = "scroll"
           /\ cursor.currentAction = AnimationNameConstants.CLICK
           /\ CursorCurrent.time < Duration(AnimationNameConstants.CLICK))
            => CursorClipState(cursor') = CursorClipState(cursor)) ]_vars

\* SCROLL was requested right after the first CLICK, before the next frame
C4_Witness ==
  /\ last.op = "scroll"
  /\ cursor.currentAction = AnimationNameConstants.CLICK
  /\ DOMAIN cursor.mixer = {AnimationNameConstants.CLICK}
  /\ CursorCurrent.time = 0
  /\ Running(CursorCurrent)

(* -------------------------------- C5 ----------------------------------- *)

\* C5: while the Scene Host's current clip is playing forward and has not
\* completed, a playAnimation request does not replace the current action,
\* even when the clip's time is still 0.
C5_NoSecondClipBeforeCompletion ==
  [][ (/\ MouseMovePlays
       /\ host.currentAction # Null
       /\ Running(HostCurrent)
       /\ HostCurrent.timeScale = 1
       /\ HostCurrent.time < Duration(host.currentAction))
        => host'.currentAction = host.currentAction ]_vars

(* -------------------------------- C6 ----------------------------------- *)

\* the clip CursorObject.playAnimation looks up for a requested name
CursorClipOf(name) ==
  IF name = AnimationNameConstants.TOUCH
  THEN AnimationNameConstants.INDEX_FINGER ELSE name

CursorAllowedNames ==
  {AnimationNameConstants.LA, AnimationNameConstants.SCROLL,
   AnimationNameConstants.CLICK, AnimationNameConstants.TOUCH}

\* no clip was played, or the current clip is back at time 0 after a revert
HostIdle ==
  \/ host.currentAction = Null
  \/ HostCurrent.time = 0 /\ HostCurrent.timeScale = -1

\* the current clip has completed forward and is clamped at its end
HostAtEnd ==
  /\ host.currentAction # Null
  /\ HostCurrent.paused
  /\ HostCurrent.time = Duration(host.currentAction)

CursorAtEnd ==
  /\ cursor.currentAction # Null
  /\ CursorCurrent.time = Duration(cursor.currentAction)

\* C6: on both objects a play request made when the object is idle or its
\* current clip is at its end makes the requested clip the current action,
\* playing forward from time 0.
C6_PlayAcceptedWhenIdleOrAtEnd ==
  [][ /\ (MouseMovePlays /\ (HostIdle \/ HostAtEnd)
            => /\ host'.currentAction = last'.animation
               /\ Running(host'.mixer[last'.animation])
               /\ host'.mixer[last'.animation].timeScale = 1
               /\ host'.mixer[last'.animation].time = 0)
      /\ ((/\ CursorPlayRequested
           /\ last'.animation \in CursorAllowedNames
           /\ (cursor.currentAction = Null \/ CursorAtEnd))
            => /\ cursor'.currentAction = CursorClipOf(last'.animation)
               /\ Running(cursor'.mixer[cursor'.currentAction])
               /\ cursor'.mixer[cursor'.currentAction].timeScale = 1
               /\ cursor'.mixer[cursor'.currentAction].time = 0) ]_vars

(* -------------------------------- C7 ----------------------------------- *)

\* C7: on the Scene Host a revert request made when no clip was played,
\* when the current action is at time 0, or when the current action is
\* still playing (forward or reverse) changes nothing of the clip state.
C7_RevertWithoutCompletedClipIsNoOp ==
  [][ (/\ MouseMoveReverts
       /\ \/ host.currentAction = Null
          \/ HostCurrent.time = 0
          \/ ~HostCurrent.paused)
        => HostClipState(host') = HostClipState(host) ]_vars

\* a revert was requested while the current clip was mid-way forward
C7_Witness ==
  /\ last.op = "mousemove"
  /\ last.animation = AnimationNameConstants.NONE
  /\ HostMidPlayback
  /\ HostCurrent.timeScale = 1

(* -------------------------------- C8 ----------------------------------- *)

HostReversing ==
  /\ host.currentAction # Null
  /\ Running(HostCurrent)
  /\ HostCurrent.timeScale = -1
  /\ HostCurrent.time > 0

HostReverted ==
  /\ host.currentAction # Null
  /\ HostCurrent.timeScale = -1
  /\ HostCurrent.time = 0

\* C8: a revert request at a clip clamped at its end starts reverse
\* playback of that clip; while frames keep coming reverse playback reaches
\* time 0; and the next play request is then accepted.
C8_RevertRunsBackToStart ==
  /\ [][ MouseMoveReverts /\ HostAtEnd
           => /\ host'.currentAction = host.currentAction
              /\ Running(host'.mixer[host.currentAction])
              /\ host'.mixer[host.currentAction].timeScale = -1
              /\ host'.mixer[host.currentAction].time = HostCurrent.time ]_vars
  /\ (HostReversing ~> HostReverted)
  /\ [][ MouseMovePlays /\ HostReverted
           => /\ host'.currentAction = last'.animation
              /\ Running(host'.mixer[last'.animation])
              /\ host'.mixer[last'.animation].timeScale = 1 ]_vars

\* reverse playback has finished at time 0
C8_Witness ==
  /\ HostReverted
  /\ ~HostCurrent.enabled
  /\ last.op = "animate"

(* -------------------------------- C9 ----------------------------------- *)

\* C9: once a revert has run back to time 0, every clip action ever
\* started on the Scene Host is at time 0.
C9_RevertRestoresOriginalPose ==
  HostReverted => \A c \in DOMAIN host.mixer : host.mixer[c].time = 0

(* -------------------------------- C10 ---------------------------------- *)

\* the trigger definitions whose sphere holds the position
Matches(position) ==
  {n \in 1..Len(trigger_centres) :
     distanceToSquared(position, trigger_centres[n][2])
       <= TRIGGER_REGION_RADIUS * TRIGGER_REGION_RADIUS}

MinOf(S) == CHOOSE n \in S : \A k \in S : n <= k

MaxOf(S) == CHOOSE n \in S : \A k \in S : n >= k

\* C10 as stated: a position within more than one trigger sphere selects
\* the first matching trigger in insertion order.
C10_FirstMatchWins ==
  (last.op = "mousemove" /\ Cardinality(Matches(cursor.position)) > 1)
    => last.animation = trigger_centres[MinOf(Matches(cursor.position))][1]

\* C10 amended: a position within more than one trigger sphere selects the
\* last matching trigger in insertion order.
C10_LastMatchWins ==
  (last.op = "mousemove" /\ Cardinality(Matches(cursor.position)) > 1)
    => last.animation = trigger_centres[MaxOf(Matches(cursor.position))][1]

\* the mouse is in the TOUCH and the HEAD sphere and HEAD was selected
C10_Witness ==
  /\ last.op = "mousemove"
  /\ Matches(cursor.position) = {1, 3}
  /\ last.animation = AnimationNameConstants.HEAD

(* -------------------------------- C11 ---------------------------------- *)

\* the Euclidean distance of p and q is greater than r
FartherThan(p, q, r) ==
  (p[1] - q[1]) ^ 2 + (p[2] - q[2]) ^ 2 + (p[3] - q[3]) ^ 2 > r ^ 2

\* C11: for every position farther than the trigger radius from each of
\* the four trigger points getModelAnimation returns NONE.
C11_FarFromEveryTriggerIsNone ==
  (/\ last.op = "getModelAnimation"
   /\ \A n \in 1..Len(trigger_centres) :
        FartherThan(cursor.position, trigger_centres[n][2],
                    TRIGGER_REGION_RADIUS))
    => last.animation = AnimationNameConstants.NONE

\* the selector has answered NONE at (100,100,100)
C11_Witness ==
  /\ last.op = "getModelAnimation"
  /\ cursor.position = <<100, 100, 100>>
  /\ last.animation = AnimationNameConstants.NONE

(* -------------------------------- C12 ---------------------------------- *)

\* C12: at each of the four trigger points getModelAnimation returns that
\* point's own animation name.
C12_AtTriggerPointOwnName ==
  last.op = "getModelAnimation"
    => \A n \in 1..Len(trigger_centres) :
         cursor.position = trigger_centres[n][2]
           => last.animation = trigger_centres[n][1]

\* the selector has answered HEAD at (75,65,60)
C12_Witness ==
  /\ last.op = "getModelAnimation"
  /\ cursor.position = <<75, 65, 60>>
  /\ last.animation = AnimationNameConstants.HEAD

\* ---------------------------------------------------------------------------
\* the two load operations, by the object they load
LoadOperations == {"model", "cursor"}

\* the object of a load operation has its model and mixer as constructed
ObjectAsConstructed(o) ==
  IF o = "model" THEN host = ModelDisplayer ELSE cursor = CursorObject

\* error is one of the lines written to the console
Logged(error) ==
  \E i \in 1..Len(console) : console[i] = ConsoleLine("error", error)

\* C13: when an asset fails to load, the load operation has logged the
\* error, its promise is rejected with that error and stays rejected (it is
\* never resolved), and the failing step leaves the model and the mixer of
\* both objects as they were.
C13_LoadFailureLoggedAndRejected ==
  /\ [](\A o \in LoadOperations :
          promise[o].state = "rejected"
            => /\ promise[o].value \in LoadErrors
               /\ Logged(promise[o].value)
               /\ ObjectAsConstructed(o))
  /\ [][\A o \in LoadOperations :
          /\ promise[o].state = "rejected" => promise'[o] = promise[o]
          /\ (promise[o].state # "rejected" /\ promise'[o].state = "rejected")
               => /\ host' = host
                  /\ cursor' = cursor
                  /\ Len(console') > Len(console)
                  /\ \A i \in (Len(console) + 1)..Len(console') :
                       console'[i] =
                         ConsoleLine("error", promise'[o].value)]_vars

\* the character asset failed with a ParseError, logged by both callbacks
C13_Witness ==
  /\ promise.model = Promise("rejected", "ParseError")
  /\ console = <<ConsoleLine("error", "ParseError"),
                 ConsoleLine("error", "ParseError")>>
  /\ host = ModelDisplayer

\* ---------------------------------------------------------------------------
\* the operations the handlers and the frame loop run on the two objects
HandlerOps == {"mousemove", "click", "scroll", "animate"}

\* C14: the handlers and the frame loop run only after the character load
\* and then the hand load have both resolved, so only on objects whose model
\* and mixer exist; the hand load starts only after the character load has
\* resolved; and after a failed load the frame loop never starts.
C14_StartupOrdering ==
  /\ []((pc = "running" \/ last.op \in HandlerOps)
          => /\ promise.model.state = "resolved"
             /\ promise.cursor.state = "resolved"
             /\ host.loaded
             /\ cursor.loaded)
  /\ [](promise.cursor.state # "none" => promise.model.state = "resolved")
  /\ []((host.clockRunning => host.loaded)
          /\ (cursor.clockRunning => cursor.loaded))
  /\ []((\E o \in LoadOperations : promise[o].state = "rejected")
          => /\ pc = "failed"
             /\ ~host.clockRunning
             /\ ~cursor.clockRunning
             /\ last.op \notin HandlerOps)
  /\ [][pc = "failed" => pc' = "failed"]_vars

\* the character loaded, then the hand asset failed: nothing was started
C14_Witness ==
  /\ promise.model.state = "resolved"
  /\ promise.cursor.state = "rejected"
  /\ pc = "failed"
  /\ host.loaded
  /\ ~cursor.loaded

\* ---------------------------------------------------------------------------
\* C15: a mouse move selects the animation of the new proxy position; when
\* it is NONE the Scene Host gets exactly a revert request and the Pointer
\* Proxy's clip state stays as it was; otherwise both objects get exactly a
\* play request for the selected animation and the Scene Host no revert.
C15_MouseMoveRevertsOrPlays ==
  [][ last'.op = "mousemove"
        => /\ last'.animation = getModelAnimation(cursor'.position)
           /\ (last'.animation = AnimationNameConstants.NONE
                 => /\ host' = ModelDisplayer_revertToOriginalPosition(host)
                    /\ CursorClipState(cursor') = CursorClipState(cursor))
           /\ (last'.animation # AnimationNameConstants.NONE
                 => /\ host' = ModelDisplayer_playAnimation(host, last'.animation)
                    /\ CursorClipState(cursor') =
                         CursorClipState(
                           CursorObject_playAnimation(cursor, last'.animation))) ]_vars

\* a mouse move into the HEAD sphere found the Scene Host's TOUCH clip
\* clamped at its end, where a revert would have acted and the play did not
C15_Witness ==
  /\ last.op = "mousemove"
  /\ last.animation = AnimationNameConstants.HEAD
  /\ host.currentAction = AnimationNameConstants.TOUCH
  /\ HostAtEnd
  /\ HostCurrent.timeScale = 1
  /\ CursorMidPlayback

\* ---------------------------------------------------------------------------
\* C16: the Scene Host's current action changes only in a step that
\* requests playAnimation, made when no clip was played yet or the current
\* action's time is 0, and it becomes the requested clip; at a clip clamped
\* at its end a play request changes nothing and only a revert request
\* changes the current action's state; and a clip is never replaced while
\* clamped, a reversed clip only once reverse playback is back at time 0.
C16_HostClipChangesOnlyAtStart ==
  /\ [][ host'.currentAction # host.currentAction
            => /\ MouseMovePlays
               /\ host'.currentAction = last'.animation
               /\ (host.currentAction = Null \/ HostCurrent.time = 0) ]_vars
  /\ [][ HostAtEnd
            => /\ host'.currentAction = host.currentAction
               /\ (MouseMovePlays => HostClipState(host') = HostClipState(host))
               /\ (host'.mixer[host.currentAction] # HostCurrent
                     => MouseMoveReverts) ]_vars
  /\ [][ (host.currentAction # Null
             /\ host'.currentAction # host.currentAction)
            => /\ ~HostCurrent.paused
               /\ (HostCurrent.timeScale = -1 => HostReverted) ]_vars

\* HEAD has become the current action after TOUCH was reverted to time 0
C16_Witness ==
  /\ last.op = "mousemove"
  /\ last.animation = AnimationNameConstants.HEAD
  /\ host.currentAction = AnimationNameConstants.HEAD
  /\ HostCurrent.time = 0
  /\ AnimationNameConstants.TOUCH \in DOMAIN host.mixer
  /\ host.mixer[AnimationNameConstants.TOUCH].time = 0
  /\ host.mixer[AnimationNameConstants.TOUCH].timeScale = -1
  /\ ~host.mixer[AnimationNameConstants.TOUCH].enabled

\* ---------------------------------------------------------------------------
\* the names playAnimation of the Pointer Proxy does not accept
CursorOtherNames ==
  {AnimationNameConstants.HEAD, AnimationNameConstants.SHOES,
   AnimationNameConstants.NONE}

\* the Pointer Proxy accepts a play request: no clip was played yet, or the
\* current action's time is the recorded clip duration
CursorPlayable ==
  \/ cursor.currentAction = Null
  \/ CursorCurrent.time = cursor.currentClipDuration

\* C17: in every reachable state playAnimation of the Pointer Proxy with
\* HEAD, SHOES or NONE leaves the proxy as it is, and a mouse move that
\* selects such a name leaves the proxy's clip state as it was, also at a
\* completed clip; an accepted TOUCH request makes INDEX_FINGER the current
\* action, activated with timeScale 1 and its duration recorded.
C17_OtherNamesIgnoredTouchPlaysIndexFinger ==
  /\ [](\A name \in CursorOtherNames :
          CursorObject_playAnimation(cursor, name) = cursor)
  /\ [][ (MouseMovePlays /\ last'.animation \in CursorOtherNames)
            => CursorClipState(cursor') = CursorClipState(cursor) ]_vars
  /\ [][ (/\ MouseMovePlays
           /\ last'.animation = AnimationNameConstants.TOUCH
           /\ CursorPlayable)
            => /\ cursor'.currentAction = AnimationNameConstants.INDEX_FINGER
               /\ cursor'.mixer[AnimationNameConstants.INDEX_FINGER].active
               /\ cursor'.mixer[AnimationNameConstants.INDEX_FINGER].timeScale = 1
               /\ cursor'.currentClipDuration =
                    Duration(AnimationNameConstants.INDEX_FINGER) ]_vars

\* a mouse move has requested HEAD while the proxy's CLICK clip was
\* completed: it is still the current action, at its end, not reset
C17_Witness ==
  /\ last.op = "mousemove"
  /\ last.animation = AnimationNameConstants.HEAD
  /\ cursor.currentAction = AnimationNameConstants.CLICK
  /\ CursorCurrent.time = cursor.currentClipDuration
  /\ ~CursorCurrent.enabled

\* ---------------------------------------------------------------------------
\* the Pointer Proxy's current action is at the recorded clip duration
CursorCompleted ==
  /\ cursor.currentAction # Null
  /\ CursorCurrent.time = cursor.currentClipDuration

\* C18: while frames keep coming, a clip the Pointer Proxy has accepted
\* reaches the recorded clip duration; the current action always has
\* timeScale 1, the recorded duration is that of its clip and a frame never
\* moves its time back; and at a completed clip a play request with LA,
\* SCROLL, CLICK or TOUCH is accepted.
C18_CursorNeverStuck ==
  /\ (cursor.currentAction # Null ~> CursorCompleted)
  /\ [](cursor.currentAction # Null
          => /\ CursorCurrent.timeScale = 1
             /\ CursorCurrent.active
             /\ cursor.currentClipDuration = Duration(cursor.currentAction))
  /\ [][ (last'.op = "animate" /\ cursor.currentAction # Null)
            => cursor'.mixer[cursor.currentAction].time >= CursorCurrent.time ]_vars
  /\ [][ (/\ CursorPlayRequested
           /\ last'.animation \in CursorAllowedNames
           /\ CursorCompleted)
            => /\ cursor'.currentAction = CursorClipOf(last'.animation)
               /\ cursor'.mixer[cursor.currentAction].time = 0
               /\ cursor'.mixer[cursor.currentAction].enabled
               /\ cursor'.mixer[cursor'.currentAction].active ]_vars

\* a click at the completed SCROLL clip was accepted: SCROLL is reset and
\* CLICK is the current action, playing from time 0
C18_Witness ==
  /\ last.op = "click"
  /\ cursor.currentAction = AnimationNameConstants.CLICK
  /\ Running(CursorCurrent)
  /\ CursorCurrent.time = 0
  /\ DOMAIN cursor.mixer =
       {AnimationNameConstants.CLICK, AnimationNameConstants.SCROLL}
  /\ cursor.mixer[AnimationNameConstants.SCROLL].time = 0
  /\ cursor.clockRunning

=============================================================================
